---- MODULE Spec2Model ----
(***************************************************************************)
(* ColorfulTodo (src/Todo _app/app.js): the Task model, the TaskStore that *)
(* persists the task list in localStorage, the renderer with its view      *)
(* state, and the delegated click handler of the task list.                *)
(***************************************************************************)
EXTENDS Integers, Sequences, FiniteSets, TLC

\* Longest task list the store is driven to.
MaxTasks == 3

\* Longest list handed to TaskStore.save directly.
MaxSaved == 2

\* Calls other modules make through window.TaskStore in a run of the page.
MaxCalls == 2

(***************************************************************************)
(* JavaScript values.  An id is a number, a string or undefined; a text is *)
(* a string (a sequence of characters) or undefined.  Every value of one   *)
(* kind is a record of the same shape, so that record equality is ===.     *)
(***************************************************************************)
Num(n) == [t |-> "number", n |-> n, s |-> ""]
Str(s) == [t |-> "string", n |-> 0, s |-> s]
Undefined == [t |-> "undefined", n |-> 0, s |-> ""]
Txt(cs) == [t |-> "string", cs |-> cs]
UndefinedText == [t |-> "undefined", cs |-> <<>>]
Bool(b) == [t |-> "boolean", b |-> b]
UndefinedBool == [t |-> "undefined", b |-> FALSE]

\* Number-to-string conversion of the small non-negative integers used as ids.
Digits == <<"0", "1", "2", "3", "4", "5", "6", "7", "8", "9">>
NumberToString(n) == Digits[n + 1]

\* String(value) on an id, as used for li.dataset.id and in the click handler.
String(id) ==
  CASE id.t = "number" -> NumberToString(id.n)
    [] id.t = "string" -> id.s
    [] OTHER -> "undefined"

\* String.prototype.toLowerCase, character by character.
LowerChar(c) ==
  CASE c = "A" -> "a"
    [] c = "B" -> "b"
    [] OTHER -> c
toLowerCase(cs) == [i \in 1..Len(cs) |-> LowerChar(cs[i])]

\* String.prototype.includes: sub occurs in cs as a contiguous substring.
includes(cs, sub) ==
  \E i \in 0..(Len(cs) - Len(sub)) : SubSeq(cs, i + 1, i + Len(sub)) = sub

\* String.prototype.trim: strip the white space at both ends.
RECURSIVE trimStart(_)
trimStart(cs) ==
  IF cs # <<>> /\ Head(cs) = " " THEN trimStart(Tail(cs)) ELSE cs
RECURSIVE trimEnd(_)
trimEnd(cs) ==
  IF cs # <<>> /\ cs[Len(cs)] = " " THEN trimEnd(SubSeq(cs, 1, Len(cs) - 1)) ELSE cs
trimNothing(cs) == cs
trim(cs) == trimEnd(trimStart(cs))

(***************************************************************************)
(* Task (lines 11-41).  An object in memory carries its class: a Task has  *)
(* serialize(), a plain {id, text, completed} record has not.              *)
(***************************************************************************)
\* new Task(id, text, completed): an undefined third argument takes the default.
Task(id, text, completed) ==
  [cls |-> "Task", id |-> id, text |-> text,
   completed |-> IF completed.t = "undefined" THEN FALSE ELSE completed.b]

\* A plain object literal with the same three fields.
PlainObject(id, text, completed) ==
  [cls |-> "Object", id |-> id, text |-> text, completed |-> completed]

toggleComplete(task) == [task EXCEPT !.completed = ~task.completed]

serializeNoCompleted(task) ==
  [id |-> task.id, text |-> task.text, completed |-> FALSE]
serialize(task) ==
  [id |-> task.id, text |-> task.text, completed |-> task.completed]

(***************************************************************************)
(* JSON.  The stored string is kept as the document it spells: an item of  *)
(* an array is an object (a key whose value was undefined is left out), a  *)
(* null or a number.                                                       *)
(***************************************************************************)
JsonObject(id, text, completed) ==
  [kind |-> "object", id |-> id, text |-> text, completed |-> completed]
JsonNull == [kind |-> "null", id |-> Undefined, text |-> UndefinedText,
             completed |-> UndefinedBool]
JsonNumber == [kind |-> "number", id |-> Undefined, text |-> UndefinedText,
               completed |-> UndefinedBool]

\* JSON.stringify of the array of serialized records.
stringifyReversed(serializable) ==
  [i \in 1..Len(serializable) |->
     JsonObject(serializable[Len(serializable) + 1 - i].id,
                serializable[Len(serializable) + 1 - i].text,
                Bool(serializable[Len(serializable) + 1 - i].completed))]
stringify(serializable) ==
  [i \in 1..Len(serializable) |->
     JsonObject(serializable[i].id, serializable[i].text,
                Bool(serializable[i].completed))]

\* The value under STORAGE_KEY: no entry, or a string that is empty, not
\* JSON, JSON for something that is no array, or JSON for an array.
NoEntry == [present |-> FALSE, syntax |-> "none", items |-> <<>>]
EmptyString == [present |-> TRUE, syntax |-> "empty", items |-> <<>>]
NotJson == [present |-> TRUE, syntax |-> "invalid", items |-> <<>>]
JsonNonArray == [present |-> TRUE, syntax |-> "nonarray", items |-> <<>>]
JsonArray(items) == [present |-> TRUE, syntax |-> "array", items |-> items]

(***************************************************************************)
(* Array helpers.  Indices of the code are 0-based, sequences 1-based.     *)
(***************************************************************************)
\* Array.prototype.findIndex, given the positions whose element passes the
\* test: the 0-based index of the first of them, or -1.
findIndex(hits) ==
  IF hits # {}
  THEN (CHOOSE i \in hits : \A j \in hits : i <= j) - 1
  ELSE -1

\* tasks.splice(index, 1): the array without the element at index.
spliceOut(s, index) == SubSeq(s, 1, index) \o SubSeq(s, index + 2, Len(s))

\* tasks.splice(index, 0, item): item inserted so that it sits at index.
spliceIn(s, index, item) ==
  SubSeq(s, 1, index) \o <<item>> \o SubSeq(s, index + 1, Len(s))

(***************************************************************************)
(* TaskStore (lines 46-131).  Each operation is a function of the stored   *)
(* value st and of whether the storage rejects writes (setItem throws); it *)
(* yields the stored value afterwards, whether an exception left the call, *)
(* and whether localStorage.setItem was called.                            *)
(***************************************************************************)
Returned(st, called) == [storage |-> st, thrown |-> FALSE, setItem |-> called]
Threw(st) == [storage |-> st, thrown |-> TRUE, setItem |-> FALSE]

load(st) ==
  IF ~st.present \/ st.syntax = "empty" THEN <<>>             \* !raw
  ELSE IF st.syntax = "invalid" THEN <<>>                     \* JSON.parse throws
  ELSE IF st.syntax # "array" THEN <<>>                       \* !Array.isArray(data)
  ELSE IF \E i \in 1..Len(st.items) : st.items[i].kind = "null"
       THEN <<>>                                              \* item.id throws, caught
  ELSE [i \in 1..Len(st.items) |->
          Task(st.items[i].id, st.items[i].text, st.items[i].completed)]

saveUncaught(st, rejects, ts) ==
  IF \E i \in 1..Len(ts) : ts[i].cls # "Task"
  THEN Threw(st)
  ELSE IF rejects
       THEN [storage |-> st, thrown |-> TRUE, setItem |-> TRUE]
       ELSE Returned(JsonArray(stringify([i \in 1..Len(ts) |-> serialize(ts[i])])),
                     TRUE)
save(st, rejects, ts) ==
  IF \E i \in 1..Len(ts) : ts[i].cls # "Task"
  THEN Threw(st)                          \* task.serialize is not a function
  ELSE IF rejects
       THEN Returned(st, TRUE)            \* setItem throws, caught and logged
       ELSE Returned(JsonArray(stringify([i \in 1..Len(ts) |-> serialize(ts[i])])),
                     TRUE)

addFirst(st, rejects, task) == save(st, rejects, <<task>> \o load(st))
add(st, rejects, task) == save(st, rejects, Append(load(st), task))

updateLast(st, rejects, task) ==
  LET ts == load(st)
      hits == {i \in 1..Len(ts) : ts[i].id = task.id}
  IN
  IF hits # {}
  THEN save(st, rejects,
            [ts EXCEPT ![CHOOSE i \in hits : \A j \in hits : j <= i] = task])
  ELSE Returned(st, FALSE)
updateOrInsert(st, rejects, task) ==
  LET ts == load(st)
      index == findIndex({i \in 1..Len(ts) : ts[i].id = task.id})
  IN  IF index # -1
      THEN save(st, rejects, [ts EXCEPT ![index + 1] = task])
      ELSE save(st, rejects, Append(ts, task))
update(st, rejects, task) ==
  LET ts == load(st)
      index == findIndex({i \in 1..Len(ts) : ts[i].id = task.id})
  IN  IF index # -1
      THEN save(st, rejects, [ts EXCEPT ![index + 1] = task])
      ELSE Returned(st, FALSE)                                \* console.warn

deleteFirst(st, rejects, id) ==
  LET ts == load(st)
      index == findIndex({i \in 1..Len(ts) : ts[i].id = id})
  IN  IF index # -1
      THEN save(st, rejects, spliceOut(ts, index))
      ELSE Returned(st, FALSE)
delete(st, rejects, id) ==
  LET ts == load(st)
      filtered == SelectSeq(ts, LAMBDA t : t.id # id)
  IN  IF Len(filtered) # Len(ts)
      THEN save(st, rejects, filtered)
      ELSE Returned(st, FALSE)                                \* console.warn

reorderSwap(st, rejects, oldIndex, newIndex) ==
  LET ts == load(st)
  IN  IF oldIndex < 0 \/ oldIndex >= Len(ts) \/ newIndex < 0 \/ newIndex >= Len(ts)
      THEN Returned(st, FALSE)
      ELSE save(st, rejects,
                [ts EXCEPT ![oldIndex + 1] = ts[newIndex + 1],
                           ![newIndex + 1] = ts[oldIndex + 1]])
reorderUnchecked(st, rejects, oldIndex, newIndex) ==
  LET ts == load(st)
  IN  IF oldIndex < 0 \/ newIndex < 0
      THEN Returned(st, FALSE)
      ELSE IF oldIndex >= Len(ts)
           THEN save(st, rejects, ts)
           ELSE save(st, rejects,
                     spliceIn(spliceOut(ts, oldIndex),
                              IF newIndex >= Len(ts) THEN Len(ts) - 1 ELSE newIndex,
                              ts[oldIndex + 1]))
reorder(st, rejects, oldIndex, newIndex) ==
  LET ts == load(st)
  IN  IF oldIndex < 0 \/ oldIndex >= Len(ts) \/ newIndex < 0 \/ newIndex >= Len(ts)
      THEN Returned(st, FALSE)                                \* console.warn
      ELSE save(st, rejects,
                spliceIn(spliceOut(ts, oldIndex), newIndex, ts[oldIndex + 1]))

(***************************************************************************)
(* Renderer (lines 144-197).  A displayed row is the <li> built from a     *)
(* task: its data-id (the id as a string), its text and its completed      *)
(* mark.  present: the #task-list element exists; shown: the rows before.  *)
(***************************************************************************)
Filters == {"all", "active", "completed"}

matchesFilter(task, filter) ==
  \/ filter = "all"
  \/ (filter = "active" /\ ~task.completed)
  \/ (filter = "completed" /\ task.completed)

matchesSearchCaseSensitive(task, searchTerm) ==
  includes(task.text.cs, searchTerm)
matchesSearch(task, searchTerm) ==
  includes(toLowerCase(task.text.cs), toLowerCase(searchTerm))

Row(task) ==
  [id |-> String(task.id), text |-> task.text.cs, completed |-> task.completed]

renderTasks(ts, filter, searchTerm, present, shown) ==
  IF ~present
  THEN [rows |-> shown, thrown |-> FALSE]                     \* console.error, return
  ELSE IF \E i \in 1..Len(ts) : ts[i].text.t # "string"
       THEN [rows |-> <<>>, thrown |-> TRUE]                  \* task.text.toLowerCase
       ELSE LET filtered ==
                  SelectSeq(ts, LAMBDA task :
                    matchesFilter(task, filter) /\ matchesSearch(task, searchTerm))
            IN  [rows |-> [i \in 1..Len(filtered) |-> Row(filtered[i])],
                 thrown |-> FALSE]

(***************************************************************************)
(* State.                                                                  *)
(***************************************************************************)
VARIABLES
  storage,        \* localStorage's value under STORAGE_KEY
  full,           \* the storage rejects writes: setItem throws
  hasList,        \* the document holds the #task-list element
  tasks,          \* the in-memory copy of the tasks (line 145)
  currentFilter,  \* line 148
  currentSearch,  \* line 149
  rows,           \* the <li> rows of #task-list, in order
  listening,      \* the click listener is attached (line 248)
  last,           \* the operation that ran last, and how it ended
  calls           \* calls made through window.TaskStore so far

vars == <<storage, full, hasList, tasks, currentFilter, currentSearch, rows,
          listening, last, calls>>
ui == <<tasks, currentFilter, currentSearch, rows, listening>>
env == <<full, hasList, calls>>

\* before: how many tasks load() returned when the operation began.
Ended(op, thrown, setItem, rendered) ==
  [op |-> op, thrown |-> thrown, setItem |-> setItem, rendered |-> rendered,
   before |-> Len(load(storage))]

(***************************************************************************)
(* Inputs.                                                                 *)
(***************************************************************************)
Ids == {Num(1), Str("1"), Num(2)}
Texts == {<<"A", "b">>, <<"b">>}
TaskArgs ==
  {Task(Num(1), Txt(<<"A", "b">>), Bool(FALSE)),
   Task(Num(1), Txt(<<"b">>), Bool(TRUE)),
   Task(Str("1"), Txt(<<"A", "b">>), Bool(FALSE)),
   Task(Num(2), Txt(<<"b">>), Bool(TRUE))}
PlainArgs == {PlainObject(id, Txt(<<"b">>), FALSE) : id \in {Num(1), Num(2)}}
TaskLists == UNION {[1..n -> TaskArgs] : n \in 0..MaxSaved}
Indices == -1..MaxTasks
SearchTerms == {<<>>, <<"a">>}
\* What prompt() returns: null on cancel, else the string typed.
Cancelled == [t |-> "null", cs |-> <<>>]
Answers ==
  {Cancelled} \cup {Txt(cs) : cs \in {<<>>, <<" ">>, <<" ", "b", " ">>}}

(***************************************************************************)
(* The script's top level (lines 145-149 and 247-248): what a page load    *)
(* does with the stored value st.                                          *)
(***************************************************************************)
Loaded(st, present) ==
  LET ts == load(st)
      r == renderTasks(ts, "all", <<>>, present, <<>>)
  IN  [tasks |-> ts, rows |-> r.rows, listening |-> (present /\ ~r.thrown),
       thrown |-> r.thrown]

PageLoad ==
  LET page == Loaded(storage, hasList)
  IN  /\ tasks' = page.tasks
      /\ currentFilter' = "all"
      /\ currentSearch' = <<>>
      /\ rows' = page.rows
      /\ listening' = page.listening
      /\ last' = Ended("pageload", page.thrown, FALSE, TRUE)
      /\ UNCHANGED <<storage, env>>

(***************************************************************************)
(* Calls other modules make through window.TaskStore and window.renderTasks*)
(***************************************************************************)
StoreCall(op, res) ==
  /\ storage' = res.storage
  /\ last' = Ended(op, res.thrown, res.setItem, FALSE)
  /\ UNCHANGED <<ui, full, hasList>>

Load == StoreCall("load", Returned(storage, FALSE))

Save(ts) == StoreCall("save", save(storage, full, ts))

\* TaskStore.save(TaskStore.load()), as a caller composes the two.
SaveLoaded == StoreCall("saveLoaded", save(storage, full, load(storage)))

Add(task) ==
  /\ Len(load(storage)) < MaxTasks
  /\ StoreCall("add", add(storage, full, task))

Update(task) == StoreCall("update", update(storage, full, task))

Delete(id) == StoreCall("delete", delete(storage, full, id))

Reorder(oldIndex, newIndex) ==
  StoreCall("reorder", reorder(storage, full, oldIndex, newIndex))

RenderTasksWhenListed(filter, searchTerm) ==
  LET r == renderTasks(tasks, filter, searchTerm, hasList, rows)
  IN  /\ currentFilter' = IF hasList THEN filter ELSE currentFilter
      /\ currentSearch' = IF hasList THEN searchTerm ELSE currentSearch
      /\ rows' = r.rows
      /\ last' = Ended("renderTasks", r.thrown, FALSE, TRUE)
      /\ UNCHANGED <<storage, env, tasks, listening>>
RenderTasks(filter, searchTerm) ==
  LET r == renderTasks(tasks, filter, searchTerm, hasList, rows)
  IN  /\ currentFilter' = filter
      /\ currentSearch' = searchTerm
      /\ rows' = r.rows
      /\ last' = Ended("renderTasks", r.thrown, FALSE, TRUE)
      /\ UNCHANGED <<storage, env, tasks, listening>>

(***************************************************************************)
(* The delegated click listener (lines 206-243).  i is the clicked row;    *)
(* the row's data-id is looked up among the in-memory tasks.               *)
(***************************************************************************)
\* tasks.find(t => String(t.id) === String(id)): a 0-based index, -1 for none.
findTask(ts, id) == findIndex({i \in 1..Len(ts) : String(ts[i].id) = id})

\* The handler returns without touching anything.
Ignored(op) ==
  /\ last' = Ended(op, FALSE, FALSE, FALSE)
  /\ UNCHANGED <<storage, env, ui>>

\* TaskStore.update(task); renderTasks(); with the task already changed in ts.
UpdateNoRender(op, ts, task) ==
  LET u == update(storage, full, task)
  IN  /\ tasks' = ts
      /\ storage' = u.storage
      /\ rows' = rows
      /\ last' = Ended(op, u.thrown, u.setItem, ~u.thrown)
      /\ UNCHANGED <<env, currentFilter, currentSearch, listening>>
UpdateAndRender(op, ts, task) ==
  LET u == update(storage, full, task)
      r == IF u.thrown
           THEN [rows |-> rows, thrown |-> TRUE]
           ELSE renderTasks(ts, currentFilter, currentSearch, hasList, rows)
  IN  /\ tasks' = ts
      /\ storage' = u.storage
      /\ rows' = r.rows
      /\ last' = Ended(op, r.thrown, u.setItem, ~u.thrown)
      /\ UNCHANGED <<env, currentFilter, currentSearch, listening>>

ClickCheckbox(i) ==
  /\ listening
  /\ i \in 1..Len(rows)
  /\ LET index == findTask(tasks, rows[i].id)
     IN  IF index = -1
         THEN Ignored("toggle")
         ELSE LET task == toggleComplete(tasks[index + 1])
              IN  UpdateAndRender("toggle", [tasks EXCEPT ![index + 1] = task], task)

ClickEdit(i, newText) ==
  /\ listening
  /\ i \in 1..Len(rows)
  /\ LET index == findTask(tasks, rows[i].id)
     IN  IF index = -1 \/ newText.t = "null" \/ trim(newText.cs) = <<>>
         THEN Ignored("edit")
         ELSE LET task == [tasks[index + 1] EXCEPT !.text = Txt(trim(newText.cs))]
              IN  UpdateAndRender("edit", [tasks EXCEPT ![index + 1] = task], task)

ClickDeleteInPlace(i) ==
  /\ listening
  /\ i \in 1..Len(rows)
  /\ LET index == findTask(tasks, rows[i].id)
     IN  IF index = -1
         THEN Ignored("deleteClick")
         ELSE LET d == delete(storage, full, tasks[index + 1].id)
                  ts == IF d.thrown THEN tasks ELSE spliceOut(tasks, index)
                  r == IF d.thrown
                       THEN [rows |-> rows, thrown |-> TRUE]
                       ELSE renderTasks(ts, currentFilter, currentSearch, hasList, rows)
              IN  /\ tasks' = ts
                  /\ storage' = d.storage
                  /\ rows' = r.rows
                  /\ last' = Ended("deleteClick", r.thrown, d.setItem, ~d.thrown)
                  /\ UNCHANGED <<env, currentFilter, currentSearch, listening>>
ClickDelete(i) ==
  /\ listening
  /\ i \in 1..Len(rows)
  /\ LET index == findTask(tasks, rows[i].id)
     IN  IF index = -1
         THEN Ignored("deleteClick")
         ELSE LET d == delete(storage, full, tasks[index + 1].id)
                  ts == IF d.thrown THEN tasks ELSE load(d.storage)
                  r == IF d.thrown
                       THEN [rows |-> rows, thrown |-> TRUE]
                       ELSE renderTasks(ts, currentFilter, currentSearch, hasList, rows)
              IN  /\ tasks' = ts
                  /\ storage' = d.storage
                  /\ rows' = r.rows
                  /\ last' = Ended("deleteClick", r.thrown, d.setItem, ~d.thrown)
                  /\ UNCHANGED <<env, currentFilter, currentSearch, listening>>

\* A click on a row's text, or on the list outside every row: no branch matches.
ClickElsewhere ==
  /\ listening
  /\ Ignored("click")

(***************************************************************************)
(* Specifications.                                                         *)
(* Spec: the page from a browser with nothing stored, with the task list   *)
(* present and a storage that accepts writes: page loads, calls from other *)
(* modules and clicks.                                                     *)
(* SpecStore: add, update, delete and reorder driven through               *)
(* window.TaskStore from any stored value, well formed or not.             *)
(* SpecSave: save, load and save(load()) driven directly, from the same     *)
(* stored values.                                                          *)
(***************************************************************************)
SaveArgs == TaskLists \cup {<<p>> : p \in PlainArgs}

StoredAtStart ==
  {NoEntry, EmptyString, NotJson, JsonNonArray,
   JsonArray(<<JsonNull>>),
   JsonArray(<<JsonObject(Num(1), Txt(<<"b">>), UndefinedBool), JsonNull>>),
   JsonArray(<<JsonObject(Num(1), Txt(<<"b">>), UndefinedBool), JsonNumber>>)}

InitFrom(st) ==
  LET page == Loaded(st, TRUE)
  IN  /\ storage = st
      /\ full = FALSE
      /\ hasList = TRUE
      /\ tasks = page.tasks
      /\ currentFilter = "all"
      /\ currentSearch = <<>>
      /\ rows = page.rows
      /\ listening = page.listening
      /\ last = [op |-> "pageload", thrown |-> page.thrown, setItem |-> FALSE,
                  rendered |-> TRUE, before |-> Len(page.tasks)]
      /\ calls = 0

Init == InitFrom(NoEntry)

InitStore == \E st \in StoredAtStart : InitFrom(st)

NextStore ==
  \/ Load /\ UNCHANGED calls
  \/ \E task \in TaskArgs \cup PlainArgs : Add(task) /\ UNCHANGED calls
  \/ \E task \in TaskArgs \cup PlainArgs : Update(task) /\ UNCHANGED calls
  \/ \E id \in Ids \cup {Undefined} : Delete(id) /\ UNCHANGED calls
  \/ \E oldIndex, newIndex \in Indices :
        Reorder(oldIndex, newIndex) /\ UNCHANGED calls

NextSave ==
  \/ Load /\ UNCHANGED calls
  \/ \E ts \in SaveArgs : Save(ts) /\ UNCHANGED calls
  \/ SaveLoaded /\ UNCHANGED calls

\* A call from another module, counted.
Called ==
  /\ calls < MaxCalls
  /\ calls' = calls + 1

Next ==
  \/ PageLoad
  \/ Called /\ Load
  \/ Called /\ \E task \in TaskArgs \cup PlainArgs : Add(task)
  \/ Called /\ \E task \in TaskArgs \cup PlainArgs : Update(task)
  \/ Called /\ \E id \in Ids \cup {Undefined} : Delete(id)
  \/ Called /\ \E oldIndex, newIndex \in Indices : Reorder(oldIndex, newIndex)
  \/ \E filter \in Filters, searchTerm \in SearchTerms : RenderTasks(filter, searchTerm)
  \/ \E i \in 1..Len(rows) : ClickCheckbox(i)
  \/ \E i \in 1..Len(rows), newText \in Answers : ClickEdit(i, newText)
  \/ \E i \in 1..Len(rows) : ClickDelete(i)
  \/ ClickElsewhere

Spec == Init /\ [][Next]_vars

SpecStore == InitStore /\ [][NextStore]_vars

SpecSave == InitStore /\ [][NextSave]_vars

(***************************************************************************)
(* Faults of the environment.                                              *)
(* SpecQuota: page loads, calls from other modules and clicks, in a        *)
(* browser whose storage may start and stop rejecting writes.              *)
(* SpecNoList: the page as in Spec, in documents that may lack the         *)
(* #task-list element.                                                     *)
(***************************************************************************)
\* The storage fills up, or space is freed again.
Quota ==
  /\ full' = ~full
  /\ last' = Ended("quota", FALSE, FALSE, FALSE)
  /\ UNCHANGED <<storage, hasList, calls, ui>>

\* The script runs in a document that has the #task-list element or not.
OpenPage(present) ==
  LET page == Loaded(storage, present)
  IN  /\ hasList' = present
      /\ tasks' = page.tasks
      /\ currentFilter' = "all"
      /\ currentSearch' = <<>>
      /\ rows' = page.rows
      /\ listening' = page.listening
      /\ last' = Ended("pageload", page.thrown, FALSE, TRUE)
      /\ UNCHANGED <<storage, full, calls>>

NextQuota ==
  \/ PageLoad
  \/ Quota
  \/ Called /\ \E task \in TaskArgs \cup PlainArgs : Add(task)
  \/ Called /\ \E task \in TaskArgs \cup PlainArgs : Update(task)
  \/ Called /\ \E id \in Ids \cup {Undefined} : Delete(id)
  \/ Called /\ \E oldIndex, newIndex \in Indices : Reorder(oldIndex, newIndex)
  \/ \E i \in 1..Len(rows) : ClickCheckbox(i)
  \/ \E i \in 1..Len(rows), newText \in Answers : ClickEdit(i, newText)
  \/ \E i \in 1..Len(rows) : ClickDelete(i)

NextNoList ==
  \/ \E present \in BOOLEAN : OpenPage(present)
  \/ Called /\ Load
  \/ Called /\ \E task \in TaskArgs \cup PlainArgs : Add(task)
  \/ Called /\ \E task \in TaskArgs \cup PlainArgs : Update(task)
  \/ Called /\ \E id \in Ids \cup {Undefined} : Delete(id)
  \/ Called /\ \E oldIndex, newIndex \in Indices : Reorder(oldIndex, newIndex)
  \/ \E filter \in Filters, searchTerm \in SearchTerms : RenderTasks(filter, searchTerm)
  \/ \E i \in 1..Len(rows) : ClickCheckbox(i)
  \/ \E i \in 1..Len(rows), newText \in Answers : ClickEdit(i, newText)
  \/ \E i \in 1..Len(rows) : ClickDelete(i)
  \/ ClickElsewhere

SpecQuota == Init /\ [][NextQuota]_vars

SpecNoList == Init /\ [][NextNoList]_vars

(***************************************************************************)
(* Properties.  The persisted collection is what load() returns for the    *)
(* stored value.                                                           *)
(***************************************************************************)
Persisted == load(storage)

\* The elements of s at the indices in keep, in the order of s.
Kept(s, keep) ==
  [k \in 1..Cardinality(keep) |->
     s[CHOOSE i \in keep : Cardinality({j \in keep : j < i}) = k - 1]]

\* s without its element at position k (1-based).
Without(s, k) == Kept(s, (1..Len(s)) \ {k})

\* C1: after every mutating operation has returned (a store call made by
\* another module, or a toggle, edit or delete click), the in-memory tasks
\* equal the persisted collection: same ids, texts, flags and order.
C1_InMemoryEqualsPersisted ==
  (/\ last.op \in {"add", "update", "delete", "reorder", "toggle", "edit", "deleteClick"}
   /\ ~last.thrown)
    => tasks = Persisted

\* C2: save(T) followed by load() returns T, for every list T of valid tasks:
\* same length and, position by position, the same id, text and flag.
C2_SaveLoadRoundTrip ==
  [][last'.op = "save" =>
       \A ts \in TaskLists : Save(ts) => load(storage') = ts]_vars

C2_Witness ==
  /\ last.op = "save"
  /\ last.setItem
  /\ Len(Persisted) = 2
  /\ Persisted[1].id # Persisted[2].id
  /\ Persisted[1].completed # Persisted[2].completed
  /\ Persisted[1].text # Persisted[2].text

\* C3: add(t) makes the persisted collection the one before with t appended
\* as its last element, also when t's id is already in the collection.
C3_AddAppends ==
  [][last'.op = "add" =>
       \A task \in TaskArgs :
         Add(task) => load(storage') = load(storage) \o <<task>>]_vars

C3_Witness ==
  /\ last.op = "add"
  /\ last.setItem
  /\ Len(Persisted) = last.before + 1
  /\ \E i \in 1..last.before : Persisted[i].id = Persisted[Len(Persisted)].id

\* C4: update(task) when no persisted task has task's id does not throw,
\* writes nothing and leaves the stored value as it was.
C4_UpdateUnknownIdIsNoOp ==
  [][last'.op = "update" => \A task \in TaskArgs \cup PlainArgs :
       (Update(task) /\ \A i \in 1..Len(Persisted) : Persisted[i].id # task.id)
         => (storage' = storage /\ ~last'.thrown /\ ~last'.setItem)]_vars

C4_Witness ==
  /\ last.op = "update"
  /\ ~last.setItem
  /\ ~last.thrown
  /\ Len(Persisted) > 0

\* C5: update(task) when a persisted task has task's id replaces the first
\* such entry by task; length, order and every other entry stay.
C5_UpdateReplacesFirstMatch ==
  [][last'.op = "update" => \A task \in TaskArgs :
       (Update(task) /\ \E i \in 1..Len(Persisted) : Persisted[i].id = task.id)
         => LET hits == {i \in 1..Len(Persisted) : Persisted[i].id = task.id}
                first == CHOOSE i \in hits : \A j \in hits : i <= j
            IN  load(storage') = [Persisted EXCEPT ![first] = task]]_vars

C5_Witness ==
  /\ last.op = "update"
  /\ last.setItem
  /\ \E i, j \in 1..Len(Persisted) :
       /\ i < j
       /\ Persisted[i].id = Persisted[j].id
       /\ Persisted[i] # Persisted[j]

\* C6: delete(id) removes every persisted task whose id is id and keeps the
\* others in their order; when none has that id it writes nothing and the
\* stored value stays, so that the same delete made again is a no-op.
C6_DeleteRemovesAllMatches ==
  [][last'.op = "delete" => \A id \in Ids \cup {Undefined} :
       Delete(id)
         => LET others == {i \in 1..Len(Persisted) : Persisted[i].id # id}
            IN  /\ load(storage') = Kept(Persisted, others)
                /\ Cardinality(others) = Len(Persisted)
                     => (storage' = storage /\ ~last'.setItem)
                /\ delete(storage', full', id) = Returned(storage', FALSE)]_vars

C6_Witness ==
  /\ last.op = "delete"
  /\ last.setItem
  /\ last.before = Len(Persisted) + 2
  /\ Len(Persisted) = 1

\* C7: reorder(oldIndex, newIndex) with both indices inside the persisted
\* collection moves one element: in every state the store is in, after such
\* a call the task that was at oldIndex is at newIndex, and the other tasks
\* keep their order.
C7_ReorderMovesOne ==
  \A oldIndex, newIndex \in 0..(Len(Persisted) - 1) :
    LET after == load(reorder(storage, full, oldIndex, newIndex).storage)
    IN  /\ Len(after) = Len(Persisted)
        /\ after[newIndex + 1] = Persisted[oldIndex + 1]
        /\ Without(after, newIndex + 1) = Without(Persisted, oldIndex + 1)

C7_Witness ==
  /\ last.op = "reorder"
  /\ last.setItem
  /\ Len(Persisted) = 3
  /\ Persisted[1] # Persisted[2]
  /\ Persisted[2] # Persisted[3]
  /\ Persisted[1] # Persisted[3]

\* C8: reorder with an index below 0 or not below the length of the freshly
\* loaded persisted collection never throws and leaves the stored value as
\* it was, whatever the length of the in-memory tasks: in every state the
\* store is in, such a call returns normally, the stored value kept and
\* setItem not called.
C8_ReorderInvalidIsNoOp ==
  \A oldIndex, newIndex \in Indices :
    (\/ oldIndex < 0 \/ oldIndex >= Len(Persisted)
     \/ newIndex < 0 \/ newIndex >= Len(Persisted))
      => reorder(storage, full, oldIndex, newIndex) = Returned(storage, FALSE)

C8_Witness ==
  /\ last.op = "reorder"
  /\ ~last.setItem
  /\ ~last.thrown
  /\ Len(Persisted) = 0
  /\ Len(tasks) > 0

\* The filter and the search of the renderer, as the design states them.
PassesFilter(task, filter) ==
  CASE filter = "all" -> TRUE
    [] filter = "active" -> ~task.completed
    [] filter = "completed" -> task.completed
    [] OTHER -> FALSE

ContainsIgnoringCase(cs, term) ==
  \E offset \in 0..(Len(cs) - Len(term)) :
    \A j \in 1..Len(term) : LowerChar(cs[offset + j]) = LowerChar(term[j])

\* C9: after renderTasks(filter, searchTerm) the rows are exactly the
\* in-memory tasks that pass the filter and contain the search term,
\* ignoring case: one row per such task, in the order of the collection.
C9_RenderShowsExactlyMatching ==
  [][last'.op = "renderTasks" => \A filter \in Filters, searchTerm \in SearchTerms :
       RenderTasks(filter, searchTerm)
         => LET visible == {i \in 1..Len(tasks) :
                              /\ PassesFilter(tasks[i], filter)
                              /\ ContainsIgnoringCase(tasks[i].text.cs, searchTerm)}
                shown == Kept(tasks, visible)
            IN  /\ Len(rows') = Cardinality(visible)
                /\ \A k \in 1..Len(rows') :
                     /\ rows'[k].id = String(shown[k].id)
                     /\ rows'[k].text = shown[k].text.cs
                     /\ rows'[k].completed = shown[k].completed]_vars

C9_Witness ==
  /\ last.op = "renderTasks"
  /\ currentFilter = "active"
  /\ currentSearch = <<"a">>
  /\ Len(tasks) = 2
  /\ Len(rows) = 1
  /\ rows[1].id = String(tasks[2].id)

\* C10: an edit click whose prompt is cancelled, or answered with an empty
\* or all-blank string, changes nothing: tasks, stored value, rows and view
\* state stay, nothing is written and nothing is rendered.
C10_EditCancelChangesNothing ==
  [][last'.op = "edit" => \A i \in 1..Len(rows), newText \in Answers :
       (/\ ClickEdit(i, newText)
        /\ \/ newText.t = "null"
           \/ \A j \in 1..Len(newText.cs) : newText.cs[j] = " ")
         => (/\ UNCHANGED <<tasks, storage, rows, currentFilter, currentSearch>>
             /\ ~last'.setItem
             /\ ~last'.rendered)]_vars

C10_Witness ==
  /\ last.op = "edit"
  /\ ~last.rendered
  /\ ~last.setItem
  /\ Len(rows) > 0
  /\ tasks # Persisted

\* An item of a stored array that is a record (an object), and a stored
\* value that is an array of records.
IsRecord(item) == item.kind = "object"

WellFormed(st) ==
  /\ st.present
  /\ st.syntax = "array"
  /\ \A i \in 1..Len(st.items) : IsRecord(st.items[i])

\* C11: load() never fails its caller and leaves the stored value as it was;
\* it returns the empty sequence when nothing is stored, and when what is
\* stored is not an array of records: unparseable text, a value that is no
\* array, or an array with an item that is no record.
C11_LoadFallsBackToEmpty ==
  /\ last.op = "load" => ~last.thrown
  /\ ~WellFormed(storage) => load(storage) = <<>>

\* C13: save, add and update never let an exception out, whatever their
\* argument, a plain {id, text, completed} record included.
C13_StoreNeverThrows ==
  last.op \in {"save", "add", "update"} => ~last.thrown

\* C14: no two tasks of the persisted collection have the same id, after any
\* sequence of add, update, delete and reorder calls.
C14_PersistedIdsUnique ==
  \A i, j \in 1..Len(Persisted) :
    i # j => Persisted[i].id # Persisted[j].id

\* C12: when the storage rejects the write of a save (made directly, by add,
\* update, delete or reorder, or by a toggle or edit click), the operation
\* returns normally and the stored value stays what it was; the in-memory
\* tasks are not rolled back: the toggled task keeps its new flag, the edited
\* task its new text.
C12_FailedWriteIsSwallowed ==
  /\ [](\A ts \in TaskLists : save(storage, TRUE, ts) = Returned(storage, TRUE))
  /\ [][(full /\ last'.setItem) =>
          /\ ~last'.thrown
          /\ storage' = storage
          /\ last'.op = "toggle" =>
               \E k \in 1..Len(tasks) :
                 tasks' = [tasks EXCEPT ![k] = toggleComplete(tasks[k])]
          /\ last'.op = "edit" =>
               \E k \in 1..Len(tasks), newText \in Answers :
                 /\ trim(newText.cs) # <<>>
                 /\ tasks' = [tasks EXCEPT ![k].text = Txt(trim(newText.cs))]]_vars

C12_Witness ==
  /\ full
  /\ last.op = "toggle"
  /\ last.setItem
  /\ ~last.thrown
  /\ tasks # Persisted
  /\ Len(tasks) = Len(Persisted)

\* The {id, text, completed} records a stored value holds, in order; a
\* record stored without its completed key counts with the default, false.
RecordOf(item) ==
  JsonObject(item.id, item.text,
             Bool(IF item.completed.t = "undefined" THEN FALSE ELSE item.completed.b))

Records(st) ==
  IF st.present /\ st.syntax = "array"
  THEN LET records == SelectSeq(st.items, IsRecord)
       IN  [i \in 1..Len(records) |-> RecordOf(records[i])]
  ELSE <<>>

\* The stored value after TaskStore.save(TaskStore.load()) on st.
AfterSaveLoaded(st, rejects) == save(st, rejects, load(st)).storage

\* C15: whatever is stored and whether or not the storage accepts writes,
\* save(load()) leaves the stored value with the same records in the same
\* order, and a second save(load()) changes nothing further.
C15_SaveLoadedKeepsRecords ==
  \A rejects \in BOOLEAN :
    LET once == AfterSaveLoaded(storage, rejects)
    IN  /\ Records(once) = Records(storage)
        /\ AfterSaveLoaded(once, rejects) = once

\* C15, amended: when what is stored is an array of records, each with its
\* three keys, save(load()) leaves the stored value exactly as it was; in
\* every state load() returns the same collection after save(load()) as
\* before it, and a second save(load()) changes nothing further.
C15_SaveLoadedRoundTrip ==
  \A rejects \in BOOLEAN :
    LET once == AfterSaveLoaded(storage, rejects)
    IN  /\ (/\ WellFormed(storage)
            /\ \A i \in 1..Len(storage.items) :
                 storage.items[i].completed.t = "boolean") => once = storage
        /\ load(once) = load(storage)
        /\ AfterSaveLoaded(once, rejects) = once

C15_Witness ==
  /\ last.op = "saveLoaded"
  /\ last.setItem
  /\ ~last.thrown
  /\ Len(Persisted) = 2
  /\ Persisted[1] # Persisted[2]

\* The rows of the tasks of ts that pass the filter and contain the search
\* term, in the order of ts.
VisibleRows(ts, filter, term) ==
  LET visible == {i \in 1..Len(ts) :
                    /\ PassesFilter(ts[i], filter)
                    /\ ContainsIgnoringCase(ts[i].text.cs, term)}
      shown == Kept(ts, visible)
  IN  [k \in 1..Len(shown) |->
         [id |-> String(shown[k].id), text |-> shown[k].text.cs,
          completed |-> shown[k].completed]]

\* C16: after a click on the delete button of a row whose task is found, the
\* in-memory tasks are what load() returns for the stored value of that
\* moment, whether or not the delete wrote anything, and the rows are those
\* of that collection under the filter and search term in force, which stay.
C16_DeleteClickReloads ==
  [][last'.op = "deleteClick" =>
       \A i \in 1..Len(rows) :
         (ClickDelete(i) /\ findTask(tasks, rows[i].id) # -1)
           => /\ tasks' = load(storage')
              /\ rows' = VisibleRows(load(storage'), currentFilter, currentSearch)
              /\ UNCHANGED <<currentFilter, currentSearch>>]_vars

C16_Witness ==
  /\ last.op = "deleteClick"
  /\ last.rendered
  /\ ~last.setItem
  /\ last.before = 0
  /\ currentFilter # "all"

\* C17: the view state is the pair of arguments of the latest renderTasks
\* call that passed them, "all" and "" before any: renderTasks(f, s) sets it
\* to (f, s) also when the list is missing and nothing is drawn, a page load
\* sets it to ("all", ""), and every other step (a toggle, edit or delete
\* click, a TaskStore call) leaves it as it was.
C17_ViewStateFollowsRender ==
  [][/\ last'.op = "renderTasks" =>
          \A filter \in Filters, searchTerm \in SearchTerms :
            RenderTasks(filter, searchTerm)
              => (currentFilter' = filter /\ currentSearch' = searchTerm)
     /\ last'.op = "pageload" => (currentFilter' = "all" /\ currentSearch' = <<>>)
     /\ last'.op \notin {"renderTasks", "pageload"}
          => UNCHANGED <<currentFilter, currentSearch>>]_vars

C17_Witness ==
  /\ last.op = "renderTasks"
  /\ ~hasList
  /\ rows = <<>>
  /\ Len(tasks) > 0
  /\ currentFilter = "completed"
  /\ currentSearch = <<"a">>

\* C18: after the initial render and after every click the listener handled
\* (toggle, accepted edit, cancelled or blank edit, delete, a click that
\* matches no branch), the rows are exactly the in-memory tasks that pass the
\* current filter and contain the current search term, in collection order;
\* a task that a toggle or edit made non-matching has no row.
C18_RowsAreVisibleTasks ==
  last.op \in {"pageload", "toggle", "edit", "deleteClick", "click"}
    => rows = VisibleRows(tasks, currentFilter, currentSearch)

C18_Witness ==
  /\ last.op = "toggle"
  /\ last.rendered
  /\ currentFilter = "active"
  /\ Len(tasks) = 2
  /\ tasks[1].completed
  /\ ~tasks[2].completed
  /\ Len(rows) = 1
  /\ rows[1].id = String(tasks[2].id)
  /\ rows[1].text = tasks[2].text.cs

\* No two tasks of ts have the same id, compared as values (1 and "1" differ).
DistinctIds(ts) ==
  \A i, j \in 1..Len(ts) : i # j => ts[i].id # ts[j].id

\* The position in the in-memory tasks of the task row i was rendered from:
\* the i-th of the tasks visible under the current filter and search term.
RowSource(i) ==
  LET visible == {k \in 1..Len(tasks) :
                    /\ PassesFilter(tasks[k], currentFilter)
                    /\ ContainsIgnoringCase(tasks[k].text.cs, currentSearch)}
  IN  CHOOSE k \in visible : Cardinality({j \in visible : j < k}) = i - 1

\* C19: when the ids of the in-memory tasks are pairwise distinct values, a
\* click on the checkbox, the edit button or the delete button of a row acts
\* on the task the row was rendered from: a toggle flips the flag of that task
\* and of no other, an accepted edit sets the text of that task and of no
\* other, a delete passes that task's id to TaskStore.delete.
C19_ClickActsOnItsRowsTask ==
  [][(DistinctIds(tasks) /\ last'.op \in {"toggle", "edit", "deleteClick"}) =>
       \A i \in 1..Len(rows) :
         LET k == RowSource(i)
         IN  /\ ClickCheckbox(i)
                  => tasks' = [tasks EXCEPT ![k] = toggleComplete(tasks[k])]
             /\ \A newText \in Answers :
                  (/\ ClickEdit(i, newText)
                   /\ newText.t # "null"
                   /\ trim(newText.cs) # <<>>)
                    => tasks' = [tasks EXCEPT ![k].text = Txt(trim(newText.cs))]
             /\ ClickDelete(i)
                  => storage' = delete(storage, full, tasks[k].id).storage]_vars

====
